---- MODULE Spec2Model ----
(***************************************************************************)
(* Model of memory_ops.c: MEM_compareStructs, MEM_copyStruct and           *)
(* MEM_fillStruct, each a NULL check followed by an inline-assembly byte   *)
(* loop.  One action per instruction (or per instruction plus the branch   *)
(* that follows it); registers are Width-bit and wrap, as do the           *)
(* post-incremented pointers.                                              *)
(***************************************************************************)
EXTENDS Integers, Naturals, Sequences, FiniteSets, TLC

VARIABLES mem, mem0, th

vars == <<mem, mem0, th>>

(* ------------------------------ bounds --------------------------------- *)
\* width in bits of a register: size_t and pointers (32 on the Cortex-M4)
Width == 4
\* largest extent a caller passes
MaxExtent == 3
\* number of caller buffers laid out in memory
NumBufs == 4
\* number of distinct byte values (256 on the target)
ByteVals == 2
\* largest extent passed by the two concurrent callers
ConcMaxExtent == 2

(* --------------------------- program constants ------------------------- *)
EFAULT == 14
NULL == 0

STRUCTS_ARE_EQUAL == 1
STRUCTS_ARENT_EQUAL == 0
COMPARE_BAD_ADDRESS == -(EFAULT)
STRUCT_COPIED == 0
COPY_BAD_ADDRESS == -(EFAULT)
STRUCT_FILLED == 0
FILL_BAD_ADDRESS == -(EFAULT)

(* ------------------------------ memory --------------------------------- *)
Modulus == 2^Width
Addr == 0..(Modulus - 1)
Byte == 0..(ByteVals - 1)
Wrap(x) == x % Modulus

Min(a, b) == IF a < b THEN a ELSE b
\* the caller's buffers: NumBufs arrays of BufCap bytes, from address 1 up
BufCap == Min(MaxExtent, (Modulus - 1) \div NumBufs)
Base(i) == 1 + i * BufCap
Bufs == 0..(NumBufs - 1)
Backed == 1..(NumBufs * BufCap)
Canary(a) == a % ByteVals

Threads == {1, 2}

(* ------------------------------ a call --------------------------------- *)
\* status_out as declared and initialised at the top of each function
InitStatus(op) ==
    CASE op = "compare" -> STRUCTS_ARE_EQUAL
      [] op = "copy"    -> STRUCT_COPIED
      [] op = "fill"    -> STRUCT_FILLED
      [] OTHER          -> 0

\* the frame of a call on entry: the arguments in their registers
\* (size = %0, p1 = %1, p2 = %2 of compare/copy; value = %2 of fill);
\* argA/argB/argN/argV and log are history, never read by the code
NewCall(op, a, b, n, v) ==
    [op |-> op, pc |-> "entry", size |-> n, p1 |-> a, p2 |-> b, value |-> v,
     r2 |-> 0, r3 |-> 0, status |-> InitStatus(op),
     argA |-> a, argB |-> b, argN |-> n, argV |-> v, log |-> <<>>]

Idle == [NewCall("none", NULL, NULL, 0, 0) EXCEPT !.pc = "idle"]

Res(c, m) == [c |-> c, m |-> m]

\* ldrb rX, [%k], #1 : load the byte, post-increment the pointer
LoadVia(c, m, k) ==
    LET a == IF k = 1 THEN c.p1 ELSE c.p2
    IN  [byte |-> m[a], next |-> Wrap(a + 1), log |-> Append(c.log, <<"ld", k, a>>)]

\* strb r2, [%k], #1 : store the low byte, post-increment the pointer
StoreVia(c, m, k) ==
    LET a == IF k = 1 THEN c.p1 ELSE c.p2
    IN  [m |-> [m EXCEPT ![a] = c.r2], next |-> Wrap(a + 1),
         log |-> Append(c.log, <<"st", k, a>>)]

(* ------------------------- MEM_compareStructs -------------------------- *)
\* the NULL check forgets struct_b
CompareEntry_OnlyA(c, m) ==
    IF c.p1 = NULL
    THEN Res([c EXCEPT !.status = COMPARE_BAD_ADDRESS, !.pc = "return_status"], m)
    ELSE Res([c EXCEPT !.pc = "cmp_loop"], m)

CompareEntry(c, m) ==
    IF c.p1 = NULL \/ c.p2 = NULL
    THEN Res([c EXCEPT !.status = COMPARE_BAD_ADDRESS, !.pc = "return_status"], m)
    ELSE Res([c EXCEPT !.pc = "cmp_loop"], m)

CmpLdrbA(c, m) ==
    LET l == LoadVia(c, m, 1)
    IN  Res([c EXCEPT !.r2 = l.byte, !.p1 = l.next, !.log = l.log, !.pc = "cmp_ldrb_b"], m)

CmpLdrbB(c, m) ==
    LET l == LoadVia(c, m, 2)
    IN  Res([c EXCEPT !.r3 = l.byte, !.p2 = l.next, !.log = l.log, !.pc = "cmp_cmp"], m)

\* the bne not_equal is missing: the loop runs on past a mismatch
CmpCmp_NoBranch(c, m) ==
    Res([c EXCEPT !.pc = "cmp_subs"], m)

\* cmp r2, r3 ; bne not_equal ; not_equal: mov %3, %4 ; b end
CmpCmp(c, m) ==
    IF c.r2 # c.r3
    THEN Res([c EXCEPT !.status = STRUCTS_ARENT_EQUAL, !.pc = "return_status"], m)
    ELSE Res([c EXCEPT !.pc = "cmp_subs"], m)

\* subs %0, %0, #1 ; bne cmp_loop ; b equal ; equal: mov %3, %5
CmpSubs(c, m) ==
    LET s == Wrap(c.size - 1)
    IN  IF s # 0
        THEN Res([c EXCEPT !.size = s, !.pc = "cmp_loop"], m)
        ELSE Res([c EXCEPT !.size = s, !.status = STRUCTS_ARE_EQUAL, !.pc = "return_status"], m)

(* --------------------------- MEM_copyStruct ---------------------------- *)
CopyEntry(c, m) ==
    IF c.p1 = NULL \/ c.p2 = NULL
    THEN Res([c EXCEPT !.status = COPY_BAD_ADDRESS, !.pc = "return_status"], m)
    ELSE Res([c EXCEPT !.pc = "copy_loop"], m)

CopyLdrb(c, m) ==
    LET l == LoadVia(c, m, 1)
    IN  Res([c EXCEPT !.r2 = l.byte, !.p1 = l.next, !.log = l.log, !.pc = "copy_strb"], m)

\* strb r2, [%2] without the post-increment
CopyStrb_NoPostInc(c, m) ==
    LET s == StoreVia(c, m, 2)
    IN  Res([c EXCEPT !.log = s.log, !.pc = "copy_subs"], s.m)

CopyStrb(c, m) ==
    LET s == StoreVia(c, m, 2)
    IN  Res([c EXCEPT !.p2 = s.next, !.log = s.log, !.pc = "copy_subs"], s.m)

CopySubs(c, m) ==
    LET s == Wrap(c.size - 1)
    IN  IF s # 0
        THEN Res([c EXCEPT !.size = s, !.pc = "copy_loop"], m)
        ELSE Res([c EXCEPT !.size = s, !.pc = "return_status"], m)

(* --------------------------- MEM_fillStruct ---------------------------- *)
FillEntry(c, m) ==
    IF c.p1 = NULL
    THEN Res([c EXCEPT !.status = FILL_BAD_ADDRESS, !.pc = "return_status"], m)
    ELSE Res([c EXCEPT !.pc = "fill_mov"], m)

\* the mov r2, %2 is missing: r2 keeps what it held
FillMov_Stale(c, m) ==
    Res([c EXCEPT !.pc = "fill_loop"], m)

FillMov(c, m) ==
    Res([c EXCEPT !.r2 = c.value, !.pc = "fill_loop"], m)

FillStrb(c, m) ==
    LET s == StoreVia(c, m, 1)
    IN  Res([c EXCEPT !.p1 = s.next, !.log = s.log, !.pc = "fill_subs"], s.m)

FillSubs(c, m) ==
    LET s == Wrap(c.size - 1)
    IN  IF s # 0
        THEN Res([c EXCEPT !.size = s, !.pc = "fill_loop"], m)
        ELSE Res([c EXCEPT !.size = s, !.pc = "return_status"], m)

(* ------------------------- running a whole call ------------------------ *)
StepOf(c, m) ==
    CASE c.pc = "entry" /\ c.op = "compare" -> CompareEntry(c, m)
      [] c.pc = "entry" /\ c.op = "copy"    -> CopyEntry(c, m)
      [] c.pc = "entry" /\ c.op = "fill"    -> FillEntry(c, m)
      [] c.pc = "cmp_loop"   -> CmpLdrbA(c, m)
      [] c.pc = "cmp_ldrb_b" -> CmpLdrbB(c, m)
      [] c.pc = "cmp_cmp"    -> CmpCmp(c, m)
      [] c.pc = "cmp_subs"   -> CmpSubs(c, m)
      [] c.pc = "copy_loop"  -> CopyLdrb(c, m)
      [] c.pc = "copy_strb"  -> CopyStrb(c, m)
      [] c.pc = "copy_subs"  -> CopySubs(c, m)
      [] c.pc = "fill_mov"   -> FillMov(c, m)
      [] c.pc = "fill_loop"  -> FillStrb(c, m)
      [] c.pc = "fill_subs"  -> FillSubs(c, m)
      [] OTHER -> Res(c, m)

RECURSIVE Run(_, _)
\* a call executed from entry to return with no other thread running
Run(c, m) ==
    IF c.pc \in {"return_status", "idle", "fault"}
    THEN Res(c, m)
    ELSE LET r == StepOf(c, m) IN Run(r.c, r.m)

(* ------------------------------ actions -------------------------------- *)
\* thread t takes the step whose outcome is r
Apply(t, r) ==
    /\ th' = [th EXCEPT ![t] = r.c]
    /\ mem' = r.m
    /\ UNCHANGED mem0

MEM_compareStructs(t) ==
    /\ th[t].pc = "entry" /\ th[t].op = "compare"
    /\ Apply(t, CompareEntry(th[t], mem))

cmp_loop(t) ==
    /\ th[t].pc = "cmp_loop"
    /\ Apply(t, CmpLdrbA(th[t], mem))

cmp_ldrb_b(t) ==
    /\ th[t].pc = "cmp_ldrb_b"
    /\ Apply(t, CmpLdrbB(th[t], mem))

cmp_cmp(t) ==
    /\ th[t].pc = "cmp_cmp"
    /\ Apply(t, CmpCmp(th[t], mem))

cmp_subs(t) ==
    /\ th[t].pc = "cmp_subs"
    /\ Apply(t, CmpSubs(th[t], mem))

MEM_copyStruct(t) ==
    /\ th[t].pc = "entry" /\ th[t].op = "copy"
    /\ Apply(t, CopyEntry(th[t], mem))

copy_loop(t) ==
    /\ th[t].pc = "copy_loop"
    /\ Apply(t, CopyLdrb(th[t], mem))

copy_strb(t) ==
    /\ th[t].pc = "copy_strb"
    /\ Apply(t, CopyStrb(th[t], mem))

copy_subs(t) ==
    /\ th[t].pc = "copy_subs"
    /\ Apply(t, CopySubs(th[t], mem))

MEM_fillStruct(t) ==
    /\ th[t].pc = "entry" /\ th[t].op = "fill"
    /\ Apply(t, FillEntry(th[t], mem))

fill_mov(t) ==
    /\ th[t].pc = "fill_mov"
    /\ Apply(t, FillMov(th[t], mem))

fill_loop(t) ==
    /\ th[t].pc = "fill_loop"
    /\ Apply(t, FillStrb(th[t], mem))

fill_subs(t) ==
    /\ th[t].pc = "fill_subs"
    /\ Apply(t, FillSubs(th[t], mem))

\* the address the next ldrb/strb of the call touches
AccessAddr(c) ==
    IF c.pc \in {"cmp_ldrb_b", "copy_strb"} THEN c.p2 ELSE c.p1

\* a byte access outside the memory the caller has laid out may be answered
\* by the bus with a fault instead of data: the call never returns
BusFault(t) ==
    /\ th[t].pc \in {"cmp_loop", "cmp_ldrb_b", "copy_loop", "copy_strb", "fill_loop"}
    /\ AccessAddr(th[t]) \notin Backed
    /\ th' = [th EXCEPT ![t].pc = "fault"]
    /\ UNCHANGED <<mem, mem0>>

(* --------------------------- initial states ---------------------------- *)
Ptrs == {NULL} \cup {Base(i) : i \in Bufs}
Extents == 0..BufCap

\* the bytes of the buffer a non-null reference points to
BufOf(p) == IF p = NULL THEN {} ELSE {Wrap(p + k) : k \in 0..(BufCap - 1)}

\* memories that hold the canary pattern outside the given addresses
MemChoices(varied) ==
    {[a \in Addr |-> IF a \in varied THEN f[a] ELSE Canary(a)] : f \in [varied -> Byte]}

SeqCalls ==
    {NewCall("compare", a, b, n, 0) : a \in Ptrs, b \in Ptrs, n \in Extents}
    \cup {NewCall("copy", a, b, n, 0) : a \in Ptrs, b \in Ptrs, n \in Extents}
    \cup {NewCall("fill", a, NULL, n, v) : a \in Ptrs, n \in Extents, v \in Byte}

\* one call; the structure behind one of its references holds any bytes, the
\* rest of memory the canary pattern
Init ==
    \E call \in SeqCalls :
      \E m \in MemChoices(BufOf(call.argA)) \cup MemChoices(BufOf(call.argB)) :
        /\ mem = m
        /\ mem0 = m
        /\ th = [t \in Threads |-> IF t = 1 THEN call ELSE Idle]

Next ==
    \E t \in Threads :
      \/ MEM_compareStructs(t)
      \/ cmp_loop(t)
      \/ cmp_ldrb_b(t)
      \/ cmp_cmp(t)
      \/ cmp_subs(t)
      \/ MEM_copyStruct(t)
      \/ copy_loop(t)
      \/ copy_strb(t)
      \/ copy_subs(t)
      \/ MEM_fillStruct(t)
      \/ fill_mov(t)
      \/ fill_loop(t)
      \/ fill_subs(t)
      \/ BusFault(t)

Spec == Init /\ [][Next]_vars

(* ------------------------ two concurrent callers ----------------------- *)
ConcExtents == 0..Min(BufCap, ConcMaxExtent)
ConcMems == {[a \in Addr |-> (k * a) % ByteVals] : k \in 0..1}

\* the calls of a thread that owns buffers i and j
ConcCalls(i, j) ==
    {NewCall("compare", Base(i), b, n, 0) : b \in {Base(i), Base(j)}, n \in ConcExtents}
    \cup {NewCall("copy", Base(i), Base(j), n, 0) : n \in ConcExtents}
    \cup {NewCall("fill", Base(i), NULL, n, v) : n \in ConcExtents, v \in Byte}

\* two threads, each inside one call, on pairwise disjoint regions; at most
\* one of the two calls has extent 0
InitConc ==
    \E c1 \in ConcCalls(0, 1), c2 \in ConcCalls(2, 3), m \in ConcMems :
        /\ c1.argN > 0 \/ c2.argN > 0
        /\ mem = m
        /\ mem0 = m
        /\ th = [t \in Threads |-> IF t = 1 THEN c1 ELSE c2]

SpecConc == InitConc /\ [][Next]_vars

(* ------------------------------ properties ----------------------------- *)
Returned(c) == c.pc = "return_status"
NonNull2(c) == c.argA # NULL /\ c.argB # NULL
Region(p, n) == {Wrap(p + i) : i \in 0..(n - 1)}
Disjoint(c) == Region(c.argA, c.argN) \cap Region(c.argB, c.argN) = {}
HasNullRef(c) ==
    \/ c.op \in {"compare", "copy"} /\ (c.argA = NULL \/ c.argB = NULL)
    \/ c.op = "fill" /\ c.argA = NULL
NoNullRef(c) ==
    \/ c.op \in {"compare", "copy"} /\ NonNull2(c)
    \/ c.op = "fill" /\ c.argA # NULL
Idx(c) == 0..(c.argN - 1)
Stores(c) == {k \in 1..Len(c.log) : c.log[k][1] = "st"}
LoadsVia(c, r) == {k \in 1..Len(c.log) : c.log[k][1] = "ld" /\ c.log[k][2] = r}
\* the bytes of A and B agree at every index below i, on entry to the call
AgreeBelow(c, i) ==
    \A j \in 0..(i - 1) : mem0[Wrap(c.argA + j)] = mem0[Wrap(c.argB + j)]

\* C1: a compare of non-null A, B over N bytes returns STRUCTS_ARE_EQUAL iff
\* A[i] = B[i] for every i in [0, N), and STRUCTS_ARENT_EQUAL otherwise.
C1_CompareIffAllBytesEqual ==
    \A t \in Threads :
      LET c == th[t]
      IN  (c.op = "compare" /\ Returned(c) /\ NonNull2(c)) =>
            c.status = (IF AgreeBelow(c, c.argN) THEN STRUCTS_ARE_EQUAL
                                                 ELSE STRUCTS_ARENT_EQUAL)

\* C2: after a copy of non-null, non-overlapping S to D over N bytes, D[i] is
\* the original S[i] for every i in [0, N), S is unchanged, and the status is
\* STRUCT_COPIED.
C2_CopyPostcondition ==
    \A t \in Threads :
      LET c == th[t]
      IN  (c.op = "copy" /\ Returned(c) /\ NonNull2(c) /\ Disjoint(c)) =>
            /\ c.status = STRUCT_COPIED
            /\ \A i \in Idx(c) :
                 /\ mem[Wrap(c.argB + i)] = mem0[Wrap(c.argA + i)]
                 /\ mem[Wrap(c.argA + i)] = mem0[Wrap(c.argA + i)]

C2_Witness ==
    \E t \in Threads :
      LET c == th[t]
      IN  /\ c.op = "copy" /\ Returned(c) /\ NonNull2(c) /\ Disjoint(c)
          /\ c.argN >= 2
          /\ \A i \in Idx(c) : mem0[Wrap(c.argB + i)] # mem0[Wrap(c.argA + i)]

\* C3: after a fill of non-null D over N bytes with V, every D[i] with i in
\* [0, N) equals V and the status is STRUCT_FILLED.
C3_FillPostcondition ==
    \A t \in Threads :
      LET c == th[t]
      IN  (c.op = "fill" /\ Returned(c) /\ c.argA # NULL) =>
            /\ c.status = STRUCT_FILLED
            /\ \A i \in Idx(c) : mem[Wrap(c.argA + i)] = c.argV

C3_Witness ==
    \E t \in Threads :
      LET c == th[t]
      IN  /\ c.op = "fill" /\ Returned(c) /\ c.argA # NULL
          /\ c.argN >= 2
          /\ \A i \in Idx(c) : mem0[Wrap(c.argA + i)] # c.argV

\* C4: a call with a null reference returns the operation's BAD_ADDRESS code
\* (-EFAULT), loads and stores no byte, and leaves memory unchanged.
C4_NullReturnsBadAddress ==
    \A t \in Threads :
      LET c == th[t]
      IN  HasNullRef(c) =>
            /\ c.log = <<>>
            /\ mem = mem0
            /\ c.pc \in {"entry", "return_status"}
            /\ Returned(c) => c.status = -(EFAULT)

C4_Witness ==
    \E t \in Threads :
      LET c == th[t]
      IN  /\ c.op = "compare" /\ Returned(c)
          /\ c.argA # NULL /\ c.argB = NULL /\ c.argN > 0

\* C5: with extent 0 and non-null references, each operation loads and
\* stores no byte and returns its success code.
C5_ZeroExtentNoAccess ==
    \A t \in Threads :
      LET c == th[t]
      IN  (NoNullRef(c) /\ c.argN = 0) =>
            /\ c.log = <<>>
            /\ Returned(c) => c.status = InitStatus(c.op)

\* C6: every byte loaded or stored lies inside [address, address + extent)
\* of the reference it is reached through.
C6_AccessWithinExtent ==
    \A t \in Threads :
      LET c == th[t]
      IN  \A k \in 1..Len(c.log) :
            LET base == IF c.log[k][2] = 1 THEN c.argA ELSE c.argB
            IN  Wrap(c.log[k][3] - base) < c.argN

\* C7: a copy of non-null, non-overlapping S to D over N bytes followed by a
\* compare of S and D over N bytes returns STRUCTS_ARE_EQUAL.
C7_CopyThenCompareEqual ==
    \A t \in Threads :
      LET c == th[t]
      IN  (c.op = "copy" /\ Returned(c) /\ NonNull2(c) /\ Disjoint(c)) =>
            Run(NewCall("compare", c.argA, c.argB, c.argN, 0), mem).c.status
                = STRUCTS_ARE_EQUAL

\* the call of a thread, as it was on entry
CallOf(c) == NewCall(c.op, c.argA, c.argB, c.argN, c.argV)

\* C8: two concurrent calls on pairwise disjoint regions each return the
\* status, and leave the memory, of the two calls run one after the other.
C8_ConcurrentAsSequential ==
    (Returned(th[1]) /\ Returned(th[2])) =>
      LET a  == Run(CallOf(th[1]), mem0)
          ab == Run(CallOf(th[2]), a.m)
          b  == Run(CallOf(th[2]), mem0)
          ba == Run(CallOf(th[1]), b.m)
      IN  \/ /\ mem = ab.m
             /\ th[1].status = a.c.status
             /\ th[2].status = ab.c.status
          \/ /\ mem = ba.m
             /\ th[2].status = b.c.status
             /\ th[1].status = ba.c.status

\* C9: a compare of non-null A, B loads A[i] then B[i] for i = 0, 1, ... in
\* order, loads index i only if A[j] = B[j] for every j < i, and stores
\* nothing.
C9_CompareReadsUpToFirstMismatch ==
    \A t \in Threads :
      LET c == th[t]
      IN  (c.op = "compare" /\ NonNull2(c)) =>
            /\ mem = mem0
            /\ \A k \in 1..Len(c.log) :
                 LET i == (k - 1) \div 2
                     r == IF k % 2 = 1 THEN 1 ELSE 2
                     base == IF r = 1 THEN c.argA ELSE c.argB
                 IN  /\ c.log[k] = <<"ld", r, Wrap(base + i)>>
                     /\ AgreeBelow(c, i)

C9_Witness ==
    \E t \in Threads :
      LET c == th[t]
      IN  /\ c.op = "compare" /\ NonNull2(c) /\ Returned(c)
          /\ c.argN >= 3
          /\ AgreeBelow(c, 1) /\ ~AgreeBelow(c, 2)
          /\ Len(c.log) = 4

\* C10: a call with non-null references returns after exactly N byte stores
\* (copy, fill) or at most N byte-pair loads (compare).
C10_IterationsEqualExtent ==
    \A t \in Threads :
      LET c == th[t]
      IN  (NoNullRef(c) /\ Returned(c)) =>
            /\ c.op \in {"copy", "fill"} => Cardinality(Stores(c)) = c.argN
            /\ c.op = "compare" => Cardinality(LoadsVia(c, 1)) <= c.argN

====
